---------------------------- MODULE Spec2Model ----------------------------
(***************************************************************************)
(* Model of the username availability checker (orig.py and generate.py):   *)
(* the sliding-window rate limiter, the probe and its classification, the  *)
(* candidate enumeration, and the two bulk drivers.                        *)
(*                                                                         *)
(* Strings are sequences of one-character strings, so that substring       *)
(* search, strip() and ''.join() are computed rather than assumed.  Time   *)
(* is counted in whole seconds.                                            *)
(***************************************************************************)
EXTENDS Integers, Sequences, FiniteSets, TLC

VARIABLES
    clock,                 \* wall clock, datetime.now() in seconds
    requests_per_minute,   \* RateLimiter.requests_per_minute
    request_times,         \* RateLimiter.request_times, a deque(maxlen=Q)
    entered,               \* history: time at which each wait_if_needed() was entered
    admitted,              \* history: time at which each wait_if_needed() returned
    last,                  \* the last check_username() call: inputs and verdict
    alphabet,              \* CHARACTERS, the string whose symbols are enumerated
    length,                \* USERNAME_LENGTH
    emitted,               \* history: the usernames the product loop has produced
    pc,                    \* position of find_available_usernames
    max_checks,            \* argument of find_available_usernames
    idx,                   \* position of the product iterator (next tuple, 1-based)
    username,              \* loop variable
    checked,               \* counter of probes of this run
    checked_usernames,     \* set loaded from the checkpoint file at start
    available_usernames,   \* in-memory list of available usernames
    checked_file,          \* checked_usernames_<L>char.txt, a sequence of lines
    result_file,           \* available_usernames_<L>char.txt, a sequence of lines
    runs,                  \* history: number of runs started
    run_start,             \* history: the two files as they were when the run started
    probes                 \* history: every probe made, [run, username, outcome, listed]

rlvars == <<clock, requests_per_minute, request_times, entered, admitted>>
enumvars == <<alphabet, length, emitted>>
drvvars == <<pc, max_checks, idx, username, checked, checked_usernames,
             available_usernames, checked_file, result_file, runs, run_start, probes>>
vars == <<rlvars, last, enumvars, drvvars>>

-----------------------------------------------------------------------------
(* Bounds of the model *)

MaxQ == 2            \* quotas 1..MaxQ are tried for the rate limiter
MaxCalls == 4        \* wait_if_needed() calls per behaviour
MaxClock == 120      \* the caller stops idling once the clock passed this
MaxK == 3            \* alphabets of 1..MaxK symbols are enumerated
MaxL == 3            \* lengths 1..MaxL are enumerated
AlphabetSize == 2    \* the bulk drivers run over the first AlphabetSize symbols
USERNAME_LENGTH == 2 \* and over usernames of this length
MaxRuns == 2         \* calls of find_available_usernames per behaviour
MaxProbes == 4       \* probes per behaviour, over all runs
MaxCap == 2          \* max_checks is drawn from 0..MaxCap
MaxIntProbes == 3    \* probes per behaviour when runs may be interrupted

(* Program constants *)

Window == 60                 \* timedelta(minutes=1), and the 60 of sleep_time
Cooldown == 30               \* time.sleep(30) after a transport failure
REQUESTS_PER_MINUTE == 30

\* Delays, in seconds, the caller may let pass between two calls.
ElapseSteps == {30, 60}
\* time.sleep(s) suspends for at least s seconds: the overshoot, in seconds.
SleepSlack == {0, 1}

-----------------------------------------------------------------------------
(* RateLimiter *)

\* deque(maxlen=n).append(x): the oldest entry is dropped when the deque is full.
DequeAppend(dq, maxlen, x) ==
    IF Len(dq) >= maxlen THEN Tail(dq) \o <<x>> ELSE Append(dq, x)

\* sleep_time = 60 - time_passed.total_seconds()
\* (variant: sleeping for the time that has passed, not for what is left)
SleepTime_elapsed(time_passed) == time_passed
SleepTime(time_passed) == Window - time_passed

\* RateLimiter.wait_if_needed(), entered at time now; slack is the overshoot of
\* time.sleep.  Gives the deque afterwards and the time at which the call returns.
WaitIfNeeded(times, Q, now, slack) ==
    IF Len(times) < Q
    THEN [times |-> DequeAppend(times, Q, now), ret |-> now]
    ELSE LET oldest_request == times[1]
             time_passed == now - oldest_request
             slept == IF time_passed < Window
                      THEN SleepTime(time_passed) + slack
                      ELSE 0
         IN  [times |-> DequeAppend(times, Q, now), ret |-> now + slept]

-----------------------------------------------------------------------------
(* Strings *)

\* needle in hay (Python's substring test)
Contains(needle, hay) ==
    \E i \in 1..(Len(hay) - Len(needle) + 1) :
        SubSeq(hay, i, i + Len(needle) - 1) = needle

\* "Sorry, nobody on Reddit goes by that name"
NotFoundPhrase ==
    <<"S", "o", "r", "r", "y", ",", " ", "n", "o", "b", "o", "d", "y", " ", "o", "n", " ", "R", "e", "d", "d", "i", "t", " ", "g", "o", "e", "s", " ", "b", "y", " ", "t", "h", "a", "t", " ", "n", "a", "m", "e">>

\* The page of an existing user
ProfileBody ==
    <<"<", "p", "r", "o", "f", "i", "l", "e", ">", "u", "/", "a", "b", "c", "<", "/", "p", "r", "o", "f", "i", "l", "e", ">">>

\* Response bodies tried: empty, the phrase alone, the phrase inside markup,
\* the phrase cut short, the phrase in another case, and a profile page.
Bodies ==
    { <<>>,
      NotFoundPhrase,
      <<"<", "p", ">">> \o NotFoundPhrase \o <<".">> \o <<"<", "/", "p", ">">>,
      SubSeq(NotFoundPhrase, 1, Len(NotFoundPhrase) - 1),
      <<"s">> \o Tail(NotFoundPhrase),
      ProfileBody }

Statuses == {200, 403, 404}

\* What session.get() can do: raise, or return a response.
Responses ==
    {[transport |-> "raise", status |-> 0, body |-> <<>>]}
    \cup {[transport |-> "ok", status |-> s, body |-> b] : s \in Statuses, b \in Bodies}

\* The responses the bulk drivers are run against: one of each kind
DriverResponses ==
    { [transport |-> "raise", status |-> 0, body |-> <<>>],
      [transport |-> "ok", status |-> 404, body |-> <<>>],
      [transport |-> "ok", status |-> 200, body |-> NotFoundPhrase],
      [transport |-> "ok", status |-> 200, body |-> ProfileBody] }

\* What the diagnostic steps of generate.py can do once a response is there:
\* find the configured <article aria-label>, find none, or fail (open() or
\* write() of debug_<username>.html raising OSError).
DiagOutcomes == {"found", "missing", "write_fails"}

-----------------------------------------------------------------------------
(* check_username *)

\* The status test and the phrase test, after the response was received.
Classify(status, body) ==
    IF status = 404 THEN TRUE
    ELSE IF Contains(NotFoundPhrase, body) THEN TRUE
    ELSE FALSE

\* orig.py check_username: the verdict, the limiter's deque afterwards, the time
\* the limiter admitted the call and the time the call returned.
\* (variant: the except clause returning at once, without time.sleep(30))
check_username_orig_nosleep(times, Q, now, slack, resp) ==
    LET w == WaitIfNeeded(times, Q, now, slack)
    IN  [verdict |-> resp.transport # "raise" /\ Classify(resp.status, resp.body),
         raised |-> resp.transport = "raise", times |-> w.times,
         admit |-> w.ret, ret |-> w.ret]
check_username_orig(times, Q, now, slack, resp) ==
    LET w == WaitIfNeeded(times, Q, now, slack)
    IN  IF resp.transport = "raise"
        THEN [verdict |-> FALSE, raised |-> TRUE, times |-> w.times,
              admit |-> w.ret, ret |-> w.ret + Cooldown]
        ELSE [verdict |-> Classify(resp.status, resp.body), raised |-> FALSE,
              times |-> w.times, admit |-> w.ret, ret |-> w.ret]

\* generate.py check_username: the debug file and the <article> lookup sit inside
\* the try block, so an exception they raise reaches the same except clause.
check_username_generate(times, Q, now, slack, resp, diag) ==
    LET w == WaitIfNeeded(times, Q, now, slack)
    IN  IF resp.transport = "raise" \/ diag = "write_fails"
        THEN [verdict |-> FALSE, raised |-> TRUE, times |-> w.times,
              admit |-> w.ret, ret |-> w.ret + Cooldown]
        ELSE [verdict |-> Classify(resp.status, resp.body), raised |-> FALSE,
              times |-> w.times, admit |-> w.ret, ret |-> w.ret]

NoProbe ==
    [variant |-> "none", transport |-> "none", status |-> 0, body |-> <<>>,
     diag |-> "none", verdict |-> FALSE]

-----------------------------------------------------------------------------
(* Enumeration: product(CHARACTERS, repeat=USERNAME_LENGTH) and ''.join *)

\* string.ascii_lowercase + string.digits
AllCharacters ==
    <<"a", "b", "c", "d", "e", "f", "g", "h", "i", "j", "k", "l", "m", "n", "o", "p", "q", "r", "s", "t", "u", "v", "w", "x", "y", "z", "0", "1", "2", "3", "4", "5", "6", "7", "8", "9">>

\* The alphabet of the bulk drivers, cut to its first AlphabetSize symbols.
CHARACTERS == SubSeq(AllCharacters, 1, AlphabetSize)

\* Iterating a string gives its one-character strings.
Pool(chars) == [i \in 1..Len(chars) |-> <<chars[i]>>]

\* One round of itertools.product: [x+[y] for x in result for y in pool]
\* (variant: the two loops nested the other way round)
Extend_yOuter(result, pool) ==
    [k \in 1..(Len(result) * Len(pool)) |->
        Append(result[((k - 1) % Len(result)) + 1], pool[((k - 1) \div Len(result)) + 1])]
Extend(result, pool) ==
    [k \in 1..(Len(result) * Len(pool)) |->
        Append(result[((k - 1) \div Len(pool)) + 1], pool[((k - 1) % Len(pool)) + 1])]

\* itertools.product(pool, repeat=n): the tuples, in the order they are yielded
RECURSIVE Product(_, _)
Product(pool, repeat) ==
    IF repeat = 0 THEN << <<>> >> ELSE Extend(Product(pool, repeat - 1), pool)

\* ''.join(combo)
RECURSIVE Join(_)
Join(combo) ==
    IF combo = <<>> THEN <<>> ELSE Head(combo) \o Join(Tail(combo))

\* The tuples the for loop of find_available_usernames runs over.
Combos == Product(Pool(alphabet), length)

-----------------------------------------------------------------------------
(* The checkpoint file and the result file: sequences of lines *)

Whitespace == {" ", "\t", "\n", "\r"}

\* str.strip()
RECURSIVE LStrip(_)
LStrip(s) == IF s # <<>> /\ Head(s) \in Whitespace THEN LStrip(Tail(s)) ELSE s
RECURSIVE RStrip(_)
RStrip(s) ==
    IF s # <<>> /\ s[Len(s)] \in Whitespace THEN RStrip(SubSeq(s, 1, Len(s) - 1)) ELSE s
Strip(s) == RStrip(LStrip(s))

\* f.write(f"{username}\n") on a file opened with 'a'
WriteLine(file, name) == Append(file, name \o <<"\n">>)

\* load_checked_usernames(filename); a missing file reads as an empty one
\* (variant: the lines taken as they are, newline included)
load_checked_usernames_raw(file) == {file[i] : i \in 1..Len(file)}
load_checked_usernames(file) == {Strip(file[i]) : i \in 1..Len(file)}

\* log_checked_username(username, filename)
log_checked_username(name, file) == WriteLine(file, name)

\* with open(available_usernames_<L>char.txt, 'a') as f: f.write(...)
\* (variant: the write left out)
SaveAvailable_nothing(file, name) == file
SaveAvailable(file, name) == WriteLine(file, name)

\* The checkpoint files a first run may find: none (or an empty one), or one
\* that holds the second candidate alone
InitialFiles ==
    LET first == Product(Pool(CHARACTERS), USERNAME_LENGTH)
    IN  { <<>>, <<Join(first[2]) \o <<"\n">>>> }

-----------------------------------------------------------------------------
(* Initial states *)

\* RateLimiter(requests_per_minute=Q), for a quota among Qs
LimiterInit(Qs) ==
    /\ clock = 0
    /\ requests_per_minute \in Qs
    /\ request_times = <<>>
    /\ entered = <<>>
    /\ admitted = <<>>

\* Nothing enumerated yet, over the given alphabets and lengths
EnumInit(alphabets, lengths) ==
    /\ alphabet \in alphabets
    /\ length \in lengths
    /\ emitted = <<>>

\* find_available_usernames not called yet; the checkpoint file holds lines
DriverInit(files) ==
    /\ pc = "idle"
    /\ max_checks = 0
    /\ idx = 1
    /\ username = <<>>
    /\ checked = 0
    /\ checked_usernames = {}
    /\ available_usernames = <<>>
    /\ checked_file \in files
    /\ result_file = <<>>
    /\ runs = 0
    /\ run_start = [checked_file |-> <<>>, result_file |-> <<>>]
    /\ probes = <<>>

-----------------------------------------------------------------------------
(* The rate limiter alone: one sequential caller of wait_if_needed() *)

\* The caller lets d seconds pass before its next call.
Elapse ==
    /\ Len(entered) < MaxCalls
    /\ \E d \in ElapseSteps :
        /\ clock + d <= MaxClock
        /\ clock' = clock + d
    /\ UNCHANGED <<requests_per_minute, request_times, entered, admitted,
                   last, enumvars, drvvars>>

\* One call of rate_limiter.wait_if_needed(), from entry to return.
CallWaitIfNeeded ==
    /\ Len(entered) < MaxCalls
    /\ \E slack \in SleepSlack :
        LET w == WaitIfNeeded(request_times, requests_per_minute, clock, slack)
        IN  /\ request_times' = w.times
            /\ clock' = w.ret
            /\ entered' = Append(entered, clock)
            /\ admitted' = Append(admitted, w.ret)
    /\ UNCHANGED <<requests_per_minute, last, enumvars, drvvars>>

InitRL ==
    /\ LimiterInit(1..MaxQ)
    /\ last = NoProbe
    /\ EnumInit({CHARACTERS}, {USERNAME_LENGTH})
    /\ DriverInit({<<>>})

NextRL == Elapse \/ CallWaitIfNeeded

SpecRL == InitRL /\ [][NextRL]_vars

-----------------------------------------------------------------------------
(* check_username alone: one sequential caller *)

\* One call of orig.py's check_username, from entry to return.
ProbeOrig ==
    /\ Len(entered) < MaxCalls
    /\ \E resp \in Responses, slack \in SleepSlack :
        LET r == check_username_orig(request_times, requests_per_minute, clock, slack, resp)
        IN  /\ request_times' = r.times
            /\ clock' = r.ret
            /\ entered' = Append(entered, clock)
            /\ admitted' = Append(admitted, r.admit)
            /\ last' = [variant |-> "orig", transport |-> resp.transport,
                        status |-> resp.status, body |-> resp.body,
                        diag |-> "none", verdict |-> r.verdict]
    /\ UNCHANGED <<requests_per_minute, enumvars, drvvars>>

\* One call of generate.py's check_username, from entry to return.
ProbeGenerate ==
    /\ Len(entered) < MaxCalls
    /\ \E resp \in Responses, slack \in SleepSlack :
       \E diag \in (IF resp.transport = "ok" THEN DiagOutcomes ELSE {"none"}) :
        LET r == check_username_generate(request_times, requests_per_minute, clock,
                                         slack, resp, diag)
        IN  /\ request_times' = r.times
            /\ clock' = r.ret
            /\ entered' = Append(entered, clock)
            /\ admitted' = Append(admitted, r.admit)
            /\ last' = [variant |-> "generate", transport |-> resp.transport,
                        status |-> resp.status, body |-> resp.body,
                        diag |-> diag, verdict |-> r.verdict]
    /\ UNCHANGED <<requests_per_minute, enumvars, drvvars>>

InitProbe == InitRL

NextProbe == ProbeOrig \/ ProbeGenerate

SpecProbe == InitProbe /\ [][NextProbe]_vars

-----------------------------------------------------------------------------
(* The enumeration alone: the for loop over product(...), joining each tuple *)

\* The strings of 1..MaxK distinct symbols, in every order
Alphabets ==
    LET syms == {AllCharacters[i] : i \in 1..MaxK}
    IN  {a \in UNION {[1..k -> syms] : k \in 1..MaxK} :
            \A i, j \in DOMAIN a : i # j => a[i] # a[j]}

\* for combo in product(...): username = ''.join(combo)
EnumNext ==
    /\ idx <= Len(Combos)
    /\ username' = Join(Combos[idx])
    /\ idx' = idx + 1
    /\ emitted' = Append(emitted, username')
    /\ UNCHANGED <<rlvars, last, alphabet, length, pc, max_checks, checked,
                   checked_usernames, available_usernames, checked_file,
                   result_file, runs, run_start, probes>>

InitEnum ==
    /\ LimiterInit({REQUESTS_PER_MINUTE})
    /\ last = NoProbe
    /\ EnumInit(Alphabets, 1..MaxL)
    /\ DriverInit({<<>>})

NextEnum == EnumNext

SpecEnum == InitEnum /\ [][NextEnum]_vars

-----------------------------------------------------------------------------
(* Properties of the rate limiter (SpecRL) *)

\* Number of calls admitted in the trailing window (t - 60, t]
AdmittedInWindow(t) ==
    Cardinality({j \in 1..Len(admitted) : t - Window < admitted[j] /\ admitted[j] <= t})

\* C1: at most Q calls are admitted (return) within any trailing 60-second
\* interval.  A trailing interval holding the most admissions ends at an
\* admission, so the intervals ending at the admission times are tried.
C1_AtMostQPerWindow ==
    \A i \in 1..Len(admitted) : AdmittedInWindow(admitted[i]) <= requests_per_minute

\* The first Q+1 calls on the fresh limiter were made with no delay between them.
BackToBack ==
    /\ Len(admitted) >= requests_per_minute + 1
    /\ \A i \in 1..(requests_per_minute + 1) : entered[i] = entered[1]

\* C2: when Q+1 calls are made back to back on a fresh limiter, the (Q+1)-th
\* does not return before 60 seconds have passed since the time of the 1st.
C2_BurstWaitsForWindow ==
    BackToBack => admitted[requests_per_minute + 1] >= entered[1] + Window

\* A burst of Q+1 calls whose last call returned exactly when the window ended
C2_Witness ==
    /\ requests_per_minute = MaxQ
    /\ BackToBack
    /\ admitted[requests_per_minute + 1] = entered[1] + Window
    /\ \A i \in 1..requests_per_minute : admitted[i] = entered[1]

-----------------------------------------------------------------------------
(* Properties of check_username (SpecProbe) *)

\* C3: for every response the transport returns without raising, the verdict is
\* Available if the status is 404, else Available if the body contains the
\* not-found phrase, else Taken: a function of the status and the body alone.
C3_VerdictFromStatusAndBody ==
    last.transport = "ok" =>
        last.verdict = (last.status = 404 \/ Contains(NotFoundPhrase, last.body))

\* C4: in generate.py the diagnostic steps have no effect on the verdict: whether
\* they succeed, find nothing or fail, a 404 response or a body containing the
\* not-found phrase is classified Available.
C4_DiagnosticsLeaveVerdict ==
    /\ last.variant = "generate"
    /\ last.transport = "ok"
    /\ last.diag \in DiagOutcomes
    /\ (last.status = 404 \/ Contains(NotFoundPhrase, last.body))
    => last.verdict

-----------------------------------------------------------------------------
(* Properties of the enumeration (SpecEnum) *)

RECURSIVE Pow(_, _)
Pow(k, n) == IF n = 0 THEN 1 ELSE k * Pow(k, n - 1)

\* Position of a symbol in the alphabet
Rank(c) == CHOOSE i \in 1..Len(alphabet) : alphabet[i] = c

\* u comes strictly before v in the lexicographic order of the alphabet
LexLess(u, v) ==
    \/ \E k \in 1..Len(u) :
          /\ k <= Len(v)
          /\ \A j \in 1..(k - 1) : u[j] = v[j]
          /\ Rank(u[k]) < Rank(v[k])
    \/ Len(u) < Len(v) /\ SubSeq(v, 1, Len(u)) = u

\* The for loop has run to the end of the product.
EnumExhausted == idx > Len(Combos)

\* C5: the enumeration yields exactly K^L candidates, each of length L over the
\* alphabet, pairwise distinct, in strictly increasing lexicographic order with
\* respect to the alphabet's own symbol order.
C5_EnumerationLexicographic ==
    LET n == Len(emitted)
        total == Pow(Len(alphabet), length)
    IN  /\ n <= total
        /\ EnumExhausted => n = total
        /\ \A i \in 1..n :
              /\ Len(emitted[i]) = length
              /\ \A p \in 1..Len(emitted[i]) : \E q \in 1..Len(alphabet) : emitted[i][p] = alphabet[q]
        /\ Cardinality({emitted[i] : i \in 1..n}) = n
        /\ \A i \in 1..(n - 1) : LexLess(emitted[i], emitted[i + 1])

\* The scenario of the specification's section 8 with the symbols in the other
\* order: alphabet "ba", L = 2, enumerated to the end as bb, ba, ab, aa
C5_Witness ==
    /\ alphabet = <<"b", "a">>
    /\ length = 2
    /\ EnumExhausted
    /\ emitted = << <<"b", "b">>, <<"b", "a">>, <<"a", "b">>, <<"a", "a">> >>

-----------------------------------------------------------------------------
(* orig.py bulk mode: find_available_usernames, statement by statement *)

\* Outcome of a probe as the history records it
Outcome(r) == IF r.raised THEN "error" ELSE IF r.verdict THEN "available" ELSE "taken"

\* if check_username(...): the branch taken on the verdict
\* (variant: only available usernames reach the checkpoint log)
AfterProbe_skipLog(verdict) == IF verdict THEN "append" ELSE "cap"
AfterProbe(verdict) == IF verdict THEN "append" ELSE "log"

\* if max_checks and checked >= max_checks  (None and 0 are both false)
\* (variant: the comparison strict)
CapReached_after(cap, count) == cap # 0 /\ count > cap
CapReached(cap, count) == cap # 0 /\ count >= cap

\* The username is a line of the file.
InFile(file, name) == \E k \in 1..Len(file) : file[k] = name \o <<"\n">>

\* The call: lines 85-103.  A new limiter and session, the checkpoint loaded.
OrigStart ==
    /\ pc = "idle"
    /\ runs < MaxRuns
    /\ \E mc \in 0..MaxCap : max_checks' = mc
    /\ available_usernames' = <<>>
    /\ request_times' = <<>>
    /\ entered' = <<>>
    /\ admitted' = <<>>
    /\ checked_usernames' = load_checked_usernames(checked_file)
    /\ checked' = 0
    /\ idx' = 1
    /\ runs' = runs + 1
    /\ run_start' = [checked_file |-> checked_file, result_file |-> result_file]
    /\ pc' = "for"
    /\ UNCHANGED <<clock, requests_per_minute, last, enumvars, username,
                   checked_file, result_file, probes>>

\* Lines 106-111: the next candidate is in the checkpoint set: continue
OrigSkip ==
    /\ pc = "for"
    /\ idx <= Len(Combos)
    /\ Join(Combos[idx]) \in checked_usernames
    /\ username' = Join(Combos[idx])
    /\ idx' = idx + 1
    /\ UNCHANGED <<rlvars, last, enumvars, pc, max_checks, checked, checked_usernames,
                   available_usernames, checked_file, result_file, runs, run_start,
                   probes>>

\* Lines 106-113: the next candidate is not in the checkpoint set: checked += 1
OrigNext ==
    /\ pc = "for"
    /\ idx <= Len(Combos)
    /\ Join(Combos[idx]) \notin checked_usernames
    /\ username' = Join(Combos[idx])
    /\ idx' = idx + 1
    /\ checked' = checked + 1
    /\ pc' = "probe"
    /\ UNCHANGED <<rlvars, last, enumvars, max_checks, checked_usernames,
                   available_usernames, checked_file, result_file, runs, run_start,
                   probes>>

\* Line 106: the product is exhausted, the loop ends
OrigExhausted ==
    /\ pc = "for"
    /\ idx > Len(Combos)
    /\ pc' = "finally"
    /\ UNCHANGED <<rlvars, last, enumvars, max_checks, idx, username, checked,
                   checked_usernames, available_usernames, checked_file, result_file,
                   runs, run_start, probes>>

\* Line 115: check_username(username, rate_limiter, session), entry to return
OrigProbe ==
    /\ pc = "probe"
    /\ Len(probes) < MaxProbes
    /\ \E resp \in DriverResponses, slack \in SleepSlack :
        LET r == check_username_orig(request_times, requests_per_minute, clock, slack, resp)
        IN  /\ request_times' = r.times
            /\ clock' = r.ret
            /\ entered' = Append(entered, clock)
            /\ admitted' = Append(admitted, r.admit)
            /\ last' = [variant |-> "orig", transport |-> resp.transport,
                        status |-> resp.status, body |-> resp.body,
                        diag |-> "none", verdict |-> r.verdict]
            /\ probes' = Append(probes, [run |-> runs, username |-> username,
                                         outcome |-> Outcome(r),
                                         listed |-> InFile(run_start.checked_file, username)])
            /\ pc' = AfterProbe(r.verdict)
    /\ UNCHANGED <<requests_per_minute, enumvars, max_checks, idx, username, checked,
                   checked_usernames, available_usernames, checked_file, result_file,
                   runs, run_start>>

\* Line 117: available_usernames.append(username)
OrigAppend ==
    /\ pc = "append"
    /\ available_usernames' = Append(available_usernames, username)
    /\ pc' = "save"
    /\ UNCHANGED <<rlvars, last, enumvars, max_checks, idx, username, checked,
                   checked_usernames, checked_file, result_file, runs, run_start, probes>>

\* Lines 120-121: the username is appended to the result file
OrigSave ==
    /\ pc = "save"
    /\ result_file' = SaveAvailable(result_file, username)
    /\ pc' = "log"
    /\ UNCHANGED <<rlvars, last, enumvars, max_checks, idx, username, checked,
                   checked_usernames, available_usernames, checked_file, runs,
                   run_start, probes>>

\* Line 124: log_checked_username(username, checked_usernames_file)
OrigLog ==
    /\ pc = "log"
    /\ checked_file' = log_checked_username(username, checked_file)
    /\ pc' = "cap"
    /\ UNCHANGED <<rlvars, last, enumvars, max_checks, idx, username, checked,
                   checked_usernames, available_usernames, result_file, runs,
                   run_start, probes>>

\* Lines 127-137: the progress report (output only), then the cap test
OrigCap ==
    /\ pc = "cap"
    /\ pc' = IF CapReached(max_checks, checked) THEN "finally" ELSE "for"
    /\ UNCHANGED <<rlvars, last, enumvars, max_checks, idx, username, checked,
                   checked_usernames, available_usernames, checked_file, result_file,
                   runs, run_start, probes>>

\* Lines 141-144: session.close(), return available_usernames
OrigFinally ==
    /\ pc = "finally"
    /\ pc' = "idle"
    /\ UNCHANGED <<rlvars, last, enumvars, max_checks, idx, username, checked,
                   checked_usernames, available_usernames, checked_file, result_file,
                   runs, run_start, probes>>

InitOrig ==
    /\ LimiterInit({REQUESTS_PER_MINUTE})
    /\ last = NoProbe
    /\ EnumInit({CHARACTERS}, {USERNAME_LENGTH})
    /\ DriverInit(InitialFiles)

NextOrig ==
    \/ OrigStart
    \/ OrigSkip
    \/ OrigNext
    \/ OrigExhausted
    \/ OrigProbe
    \/ OrigAppend
    \/ OrigSave
    \/ OrigLog
    \/ OrigCap
    \/ OrigFinally

SpecOrig == InitOrig /\ [][NextOrig]_vars

-----------------------------------------------------------------------------
(* Properties of orig.py bulk mode (SpecOrig) *)

\* The probes of the current run, as positions in the history
ProbesOfRun == {i \in 1..Len(probes) : probes[i].run = runs}

\* The usernames found available, in probe order: by all runs, and by this run
RECURSIVE AvailableOf(_, _)
AvailableOf(hist, run) ==
    IF hist = <<>> THEN <<>>
    ELSE IF Head(hist).outcome = "available" /\ run \in {0, Head(hist).run}
         THEN <<Head(hist).username>> \o AvailableOf(Tail(hist), run)
         ELSE AvailableOf(Tail(hist), run)

\* The lines that writing the names one by one leaves in an empty file
LinesOf(names) == [i \in 1..Len(names) |-> names[i] \o <<"\n">>]

\* No probe is in flight and every statement after the last probe has run.
AtBoundary == pc \in {"for", "probe", "finally", "idle"}

\* C6: a candidate that is in the checkpoint file when a run starts is never
\* probed during that run, and over any sequence of completed or capped runs no
\* candidate is probed twice, in the same run or in two runs.
C6_NoReprobe ==
    /\ \A i \in 1..Len(probes) : ~probes[i].listed
    /\ \A i, j \in 1..Len(probes) : i # j => probes[i].username # probes[j].username

\* A second run that found a checkpoint written by the first, skipped candidates
\* because of it and probed another one
C6_Witness ==
    /\ runs = 2
    /\ \E i \in 1..Len(probes) : probes[i].run = 1 /\ InFile(run_start.checked_file, probes[i].username)
    /\ ProbesOfRun # {}
    /\ idx - 1 > checked

\* C7: every candidate whose probe returned is in the checkpoint file before the
\* next candidate is probed, whatever the verdict, so a candidate whose probe
\* failed is not probed again in this or a later run.
C7_EveryProbeCheckpointed ==
    /\ AtBoundary => \A i \in 1..Len(probes) : InFile(checked_file, probes[i].username)
    /\ \A i, j \in 1..Len(probes) :
          i < j /\ probes[i].outcome = "error" => probes[j].username # probes[i].username

\* A probe failed, a Taken and an Available probe followed, and a later run is
\* about to probe the candidate after them.
C7_Witness ==
    /\ pc = "probe"
    /\ runs = 2
    /\ \E i \in 1..Len(probes) : probes[i].outcome = "error" /\ probes[i].run = 1
    /\ \E i \in 1..Len(probes) : probes[i].outcome = "taken"
    /\ \E i \in 1..Len(probes) : probes[i].outcome = "available"

\* C8: a candidate is in the result file if and only if its probe returned
\* Available, the line being written before the next probe starts; at every such
\* boundary the in-memory list equals, in order, the candidates this run has
\* appended to the result file.
C8_ResultFileMatchesVerdicts ==
    AtBoundary =>
        /\ result_file = LinesOf(AvailableOf(probes, 0))
        /\ available_usernames = AvailableOf(probes, runs)
        /\ result_file = run_start.result_file \o LinesOf(available_usernames)

\* The second run found the first run's results in the file, and has itself
\* found one available and one unavailable candidate.
C8_Witness ==
    /\ pc = "probe"
    /\ runs = 2
    /\ run_start.result_file # <<>>
    /\ Len(available_usernames) = 1
    /\ \E i \in ProbesOfRun : probes[i].outcome # "available"

\* Candidates of the product that were not in the checkpoint file at run start
UncheckedAtStart ==
    Cardinality({i \in 1..Len(Combos) : ~InFile(run_start.checked_file, Join(Combos[i]))})

\* C9: with a cap max_checks = N >= 1 the number of probes of a run never exceeds
\* N, and when at least N candidates were not in the checkpoint the run stops
\* after exactly N probes; skipped candidates do not count.
C9_CapOnProbes ==
    max_checks >= 1 =>
        /\ Cardinality(ProbesOfRun) <= max_checks
        /\ pc \in {"finally", "idle"} /\ UncheckedAtStart >= max_checks
              => Cardinality(ProbesOfRun) = max_checks

\* A run capped at 2 that skipped a candidate, made 2 probes and stopped with
\* candidates left
C9_Witness ==
    /\ pc = "finally"
    /\ max_checks = 2
    /\ Cardinality(ProbesOfRun) = 2
    /\ idx - 1 > 2
    /\ idx <= Len(Combos)

-----------------------------------------------------------------------------
(* generate.py: __main__ and find_available_usernames *)

\* len(CHARACTERS) ** USERNAME_LENGTH
RECURSIVE Power(_, _)
Power(k, n) == IF n = 0 THEN 1 ELSE k * Power(k, n - 1)
TOTAL_POSSIBILITIES == Power(Len(alphabet), length)

\* Names given with --username
SpecificUsernames == { <<"s", "p", "e", "z">>, <<"a", "/", "b">> }

\* Lines 452-467 and 196-200: no --username; --max_checks N parsed, or absent
\* (0 stands for absent: both fall back to TOTAL_POSSIBILITIES); bulk mode starts.
GenStartBulk ==
    /\ pc = "idle"
    /\ runs < MaxRuns
    /\ \E arg \in 0..MaxCap :
        max_checks' = IF arg # 0 THEN arg ELSE TOTAL_POSSIBILITIES
    /\ available_usernames' = <<>>
    /\ request_times' = <<>>
    /\ entered' = <<>>
    /\ admitted' = <<>>
    /\ idx' = 1
    /\ runs' = runs + 1
    /\ pc' = "for"
    /\ UNCHANGED <<clock, requests_per_minute, last, enumvars, username, checked,
                   checked_usernames, checked_file, result_file, run_start, probes>>

\* Lines 452-464 and 196-209: --username given; the name is probed once and the
\* call returns.  max_checks keeps its default, None.
GenSpecific ==
    /\ pc = "idle"
    /\ runs < MaxRuns
    /\ Len(probes) < MaxProbes
    /\ \E name \in SpecificUsernames, resp \in DriverResponses, slack \in SleepSlack :
       \E diag \in (IF resp.transport = "ok" THEN DiagOutcomes ELSE {"none"}) :
        LET r == check_username_generate(<<>>, requests_per_minute, clock, slack, resp, diag)
        IN  /\ request_times' = r.times
            /\ clock' = r.ret
            /\ entered' = <<clock>>
            /\ admitted' = <<r.admit>>
            /\ username' = name
            /\ last' = [variant |-> "generate", transport |-> resp.transport,
                        status |-> resp.status, body |-> resp.body,
                        diag |-> diag, verdict |-> r.verdict]
            /\ probes' = Append(probes, [run |-> runs + 1, username |-> name,
                                         outcome |-> Outcome(r), listed |-> FALSE])
            /\ available_usernames' = IF r.verdict THEN <<name>> ELSE <<>>
    /\ max_checks' = 0
    /\ runs' = runs + 1
    /\ UNCHANGED <<requests_per_minute, enumvars, pc, idx, checked, checked_usernames,
                   checked_file, result_file, run_start>>

\* if max_checks and len(available_usernames) >= max_checks
GenCapReached(cap, available) == cap # 0 /\ Len(available) >= cap

\* Lines 213-219: one iteration of the bulk loop
GenIterate ==
    /\ pc = "for"
    /\ idx <= Len(Combos)
    /\ Len(probes) < MaxProbes
    /\ \E resp \in DriverResponses, slack \in SleepSlack :
       \E diag \in (IF resp.transport = "ok" THEN DiagOutcomes ELSE {"none"}) :
        LET name == Join(Combos[idx])
            r == check_username_generate(request_times, requests_per_minute, clock,
                                         slack, resp, diag)
            found == IF r.verdict THEN Append(available_usernames, name)
                     ELSE available_usernames
        IN  /\ username' = name
            /\ idx' = idx + 1
            /\ request_times' = r.times
            /\ clock' = r.ret
            /\ entered' = Append(entered, clock)
            /\ admitted' = Append(admitted, r.admit)
            /\ last' = [variant |-> "generate", transport |-> resp.transport,
                        status |-> resp.status, body |-> resp.body,
                        diag |-> diag, verdict |-> r.verdict]
            /\ probes' = Append(probes, [run |-> runs, username |-> name,
                                         outcome |-> Outcome(r), listed |-> FALSE])
            /\ available_usernames' = found
            /\ pc' = IF GenCapReached(max_checks, found) THEN "finally" ELSE "for"
    /\ UNCHANGED <<requests_per_minute, enumvars, max_checks, checked, checked_usernames,
                   checked_file, result_file, runs, run_start>>

\* Line 213: the product is exhausted, the loop ends
GenExhausted ==
    /\ pc = "for"
    /\ idx > Len(Combos)
    /\ pc' = "finally"
    /\ UNCHANGED <<rlvars, last, enumvars, max_checks, idx, username, checked,
                   checked_usernames, available_usernames, checked_file, result_file,
                   runs, run_start, probes>>

\* Lines 221-222: session.close(), return available_usernames
GenReturn ==
    /\ pc = "finally"
    /\ pc' = "idle"
    /\ UNCHANGED <<rlvars, last, enumvars, max_checks, idx, username, checked,
                   checked_usernames, available_usernames, checked_file, result_file,
                   runs, run_start, probes>>

InitGen ==
    /\ LimiterInit({REQUESTS_PER_MINUTE})
    /\ last = NoProbe
    /\ EnumInit({CHARACTERS}, {USERNAME_LENGTH})
    /\ DriverInit({<<>>})

NextGen ==
    \/ GenStartBulk
    \/ GenSpecific
    \/ GenIterate
    \/ GenExhausted
    \/ GenReturn

SpecGen == InitGen /\ [][NextGen]_vars

-----------------------------------------------------------------------------
(* Properties of generate.py bulk mode (SpecGen) *)

\* C10: --max_checks N is the maximum number of usernames checked: for every
\* N >= 1 the bulk run performs at most N probes before it stops.
C10_MaxChecksBoundsProbes ==
    pc \in {"for", "finally"} /\ max_checks >= 1
        => Cardinality(ProbesOfRun) <= max_checks

-----------------------------------------------------------------------------
(* orig.py bulk mode under KeyboardInterrupt *)

\* Where control goes when KeyboardInterrupt is raised at a place inside the try
\* block: no handler below find_available_usernames catches it (check_username
\* catches Exception, which KeyboardInterrupt is not), so lines 139-142 run.
\* (variant: check_username swallowing the interrupt like any other exception)
AfterInterrupt_swallowed(at) == IF at = "probe" THEN "log" ELSE "finally"
AfterInterrupt(at) == "finally"

\* The interrupt arrives between two statements of the loop.
OrigInterrupt ==
    /\ pc \in {"for", "append", "save", "log", "cap"}
    /\ pc' = AfterInterrupt(pc)
    /\ UNCHANGED <<rlvars, last, enumvars, max_checks, idx, username, checked,
                   checked_usernames, available_usernames, checked_file, result_file,
                   runs, run_start, probes>>

\* The interrupt arrives inside check_username: while the limiter sleeps (its
\* deque not yet appended to) or while the request is in flight (sent).
OrigProbeInterrupted ==
    /\ pc = "probe"
    /\ Len(probes) < MaxIntProbes
    /\ \E slack \in SleepSlack, sent \in BOOLEAN :
        LET w == WaitIfNeeded(request_times, requests_per_minute, clock, slack)
        IN  /\ request_times' = IF sent THEN w.times ELSE request_times
            /\ clock' = IF sent THEN w.ret ELSE clock
            /\ entered' = Append(entered, clock)
            /\ admitted' = IF sent THEN Append(admitted, w.ret) ELSE admitted
    /\ last' = [variant |-> "orig", transport |-> "interrupted", status |-> 0,
                body |-> <<>>, diag |-> "none", verdict |-> FALSE]
    /\ probes' = Append(probes, [run |-> runs, username |-> username,
                                 outcome |-> "aborted",
                                 listed |-> InFile(run_start.checked_file, username)])
    /\ pc' = AfterInterrupt(pc)
    /\ UNCHANGED <<requests_per_minute, enumvars, max_checks, idx, username, checked,
                   checked_usernames, available_usernames, checked_file, result_file,
                   runs, run_start>>

\* Line 115, the probe running to its return
OrigProbeCompleted ==
    /\ Len(probes) < MaxIntProbes
    /\ OrigProbe

NextOrigInt ==
    \/ OrigStart
    \/ OrigSkip
    \/ OrigNext
    \/ OrigExhausted
    \/ OrigProbeCompleted
    \/ OrigProbeInterrupted
    \/ OrigAppend
    \/ OrigSave
    \/ OrigLog
    \/ OrigCap
    \/ OrigInterrupt
    \/ OrigFinally

SpecOrigInt == InitOrig /\ [][NextOrigInt]_vars

-----------------------------------------------------------------------------
(* Properties of orig.py bulk mode under interrupts (SpecOrigInt) *)

\* The lines the current run has appended to a file that had `before` at its start
AppendedByRun(file, before) == SubSeq(file, Len(before) + 1, Len(file))

\* C11 as stated: a probe that is in flight when the interrupt arrives is allowed
\* to finish and its effects are persisted before the run returns, so its
\* candidate is in the checkpoint file once the run has returned.
C11_InFlightProbePersisted ==
    pc = "idle" =>
        \A i \in ProbesOfRun :
            probes[i].outcome = "aborted" => InFile(checked_file, probes[i].username)

\* C11 as amended: a probe that is in flight when the interrupt arrives is
\* aborted.  The run makes no further probe and goes to its return, and it has
\* appended the candidate neither to the result file, nor to the checkpoint
\* file, nor to its list.
C11_InFlightProbeAborted ==
    \A i \in 1..Len(probes) :
        probes[i].outcome = "aborted" =>
            /\ \A j \in 1..Len(probes) : j > i => probes[j].run > probes[i].run
            /\ probes[i].run = runs =>
                  /\ pc \in {"finally", "idle"}
                  /\ ~InFile(AppendedByRun(checked_file, run_start.checked_file),
                             probes[i].username)
                  /\ ~InFile(AppendedByRun(result_file, run_start.result_file),
                             probes[i].username)
                  /\ \A k \in 1..Len(available_usernames) :
                        available_usernames[k] # probes[i].username

\* A run that found one candidate available, was interrupted during the probe
\* of the next, and has returned: the first is in both files and in the list,
\* the second in none.
C11_Witness ==
    /\ pc = "idle"
    /\ \E i, j \in ProbesOfRun :
          /\ i < j
          /\ probes[i].outcome = "available"
          /\ probes[j].outcome = "aborted"
          /\ InFile(checked_file, probes[i].username)
          /\ InFile(result_file, probes[i].username)
          /\ available_usernames = <<probes[i].username>>
          /\ ~InFile(checked_file, probes[j].username)

-----------------------------------------------------------------------------
(* Properties of check_username under transport failure (SpecProbe) *)

\* A call of check_username is made in this step.
ProbeStep == Len(entered') = Len(entered) + 1

\* C12: when the transport raises during a probe, check_username returns (the
\* exception is not propagated) with a verdict that is not Available, at least
\* 30 seconds after the limiter admitted the request, hence after the failure;
\* and the next acquire of the rate limiter is entered at least 30 seconds
\* after the failed request.
C12_TransportFailureCooldown ==
    [][ /\ ProbeStep /\ last'.transport = "raise" =>
              /\ ~last'.verdict
              /\ clock' >= admitted'[Len(admitted')] + Cooldown
        /\ ProbeStep /\ last.transport = "raise" =>
              entered'[Len(entered')] >= admitted[Len(admitted)] + Cooldown
      ]_vars

\* Two calls in a row whose transport raised: the second was entered 30 seconds
\* after the first was admitted, and has returned False 30 seconds after its own
\* admission.
C12_Witness ==
    /\ Len(entered) >= 2
    /\ last.transport = "raise"
    /\ ~last.verdict
    /\ entered[Len(entered)] = admitted[Len(entered) - 1] + Cooldown
    /\ clock = admitted[Len(admitted)] + Cooldown

-----------------------------------------------------------------------------
(* The timestamps of the rate window (SpecRL) *)

\* C13: every wait_if_needed() call records in the rate window the time at which
\* the call was admitted (after a sleep: the time after the wait, not the time
\* of entry), and the window holds at most Q timestamps, the oldest evicted
\* when it is full.
C13_WindowRecordsAdmission ==
    /\ Len(request_times) <= requests_per_minute
    /\ Len(admitted) >= 1 =>
          /\ request_times[Len(request_times)] = admitted[Len(admitted)]
          /\ \A k \in 1..Len(request_times) :
                request_times[k] = admitted[Len(admitted) - Len(request_times) + k]

-----------------------------------------------------------------------------
(* The result file across interrupted runs (SpecOrigInt) *)

\* C14: after any sequence of bulk-mode runs over the same checkpoint and result
\* files, each run possibly stopped by an interrupt between two statements of
\* the loop, no candidate appears more than once in the result file.
C14_NoDuplicateResults ==
    \A i, j \in 1..Len(result_file) :
        i # j => result_file[i] # result_file[j]

=============================================================================
